---- MODULE Spec2Model ----
\* CUTLASS GEMM kernel profiler (python/tvm/contrib/cutlass/gen_gemm.py):
\* CutlassGemmProfiler.check_align and CutlassGemmProfiler.select_op with the
\* shape-keyed cache, over a catalog built by enumerate_gemm_operators.
EXTENDS Integers, Sequences, FiniteSets, TLC

VARIABLES
    alignment_constraints, \* the alignment list the generator hands to enumerate_gemm_operators
    rt,                    \* engine: the runtime evaluate reports for each candidate name
    cache,                 \* self.cache: dict keyed by <<M, N, K>>
    pc,                    \* position of the select_op call in progress
    args,                  \* arguments of the current (or last) select_op call
    ops,                   \* local list ops of select_op (after the filter)
    i,                     \* index of the for loop over ops
    ret,                   \* what the last select_op call returned or raised
    events,                \* engine/catalog operations performed by the current call
    again,                 \* the current call repeats the shape and out_dtype of the call before it
    ca_args,               \* arguments of a direct check_align call
    ca_ret,                \* its outcome ("none" before the call)
    inst,                  \* outcome of CutlassGemmProfiler(sm, ...) and the sm asked for
    api,                   \* the public method last called, with its op_type, batched and result
    th                     \* frames of select_op calls running concurrently on one profiler

apivars == <<inst, api, th>>

vars == <<alignment_constraints, rt, cache, pc, args, ops, i, ret, events, again,
          ca_args, ca_ret, inst, api, th>>

-----------------------------------------------------------------------------
\* Bounds of the model.

\* finite runtimes the engine can report are 1..MaxRuntime
MaxRuntime == 2
\* dimensions tried on direct check_align calls are 1..MaxAlignDim
MaxAlignDim == 8
\* names tried on direct check_align calls are built from at most MaxSegs segments
MaxSegs == 2

\* float("inf"), the engine's sentinel for a candidate that failed
Inf == 1000

Runtimes == (1..MaxRuntime) \cup {Inf}

-----------------------------------------------------------------------------
\* Names are sequences of one-character strings.

ALIGN == <<"a", "l", "i", "g", "n">>

\* the character class [1|2|4|8] of the pattern in check_align
AlignClass == {"1", "|", "2", "4", "8"}

\* int(c) for the characters the class admits; "|" makes int raise ValueError
IsDigit(c) == c \in {"0", "1", "2", "3", "4", "5", "6", "7", "8", "9"}

DigitVal(c) ==
    CASE c = "0" -> 0 [] c = "1" -> 1 [] c = "2" -> 2 [] c = "3" -> 3
      [] c = "4" -> 4 [] c = "5" -> 5 [] c = "6" -> 6 [] c = "7" -> 7
      [] c = "8" -> 8 [] c = "9" -> 9

\* re.findall(r"align[1|2|4|8]", s): leftmost non-overlapping matches from p on
RECURSIVE FindAllFrom(_, _)
FindAllFrom(s, p) ==
    IF p + 5 > Len(s) THEN <<>>
    ELSE IF SubSeq(s, p, p + 4) = ALIGN /\ s[p + 5] \in AlignClass
         THEN <<SubSeq(s, p, p + 5)>> \o FindAllFrom(s, p + 6)
         ELSE FindAllFrom(s, p + 1)

FindAll(s) == FindAllFrom(s, 1)

\* all([dim % align == 0 for dim in [M, N, K]])
AllDims(align, M, N, K) == M % align = 0 /\ N % align = 0 /\ K % align = 0

\* check_align with "assert len(aligns) >= 1": the first token decides
check_align_first(op_name, M, N, K) ==
    LET aligns == FindAll(op_name) IN
    IF Len(aligns) = 0 THEN "AssertionError"
    ELSE LET c == aligns[1][6] IN
         IF ~IsDigit(c) THEN "ValueError"
         ELSE IF AllDims(DigitVal(c), M, N, K) THEN "True" ELSE "False"

\* check_align with any(...) in place of all(...)
check_align_any(op_name, M, N, K) ==
    LET aligns == FindAll(op_name) IN
    IF Len(aligns) # 1 THEN "AssertionError"
    ELSE LET c == aligns[1][6] IN
         IF ~IsDigit(c) THEN "ValueError"
         ELSE IF (M % DigitVal(c) = 0 \/ N % DigitVal(c) = 0 \/ K % DigitVal(c) = 0)
              THEN "True" ELSE "False"

\* CutlassGemmProfiler.check_align: "True", "False", or the exception raised
check_align(op_name, M, N, K) ==
    LET aligns == FindAll(op_name) IN
    IF Len(aligns) # 1 THEN "AssertionError"
    ELSE LET c == aligns[1][6] IN
         IF ~IsDigit(c) THEN "ValueError"
         ELSE IF AllDims(DigitVal(c), M, N, K) THEN "True" ELSE "False"

-----------------------------------------------------------------------------
\* The catalog.

DTypes == {"float16", "float32"}

\* runtime of a candidate that has not been evaluated (no "runtime" key yet)
NoRuntime == -1

\* the tile descriptions the generator supplies for an output type
TileDescriptions(out_dtype) == IF out_dtype = "float16" THEN <<"h">> ELSE <<"s">>

\* data_type: (element_a, element_b, element_c, element_epilogue)
DataType(out_dtype) == <<"float16", "float16", out_dtype, out_dtype>>

DigitChar(n) == CASE n = 1 -> "1" [] n = 2 -> "2" [] n = 4 -> "4" [] n = 8 -> "8"

\* op.procedural_name(): "..._<tile>_tn_align<alignment>"
ProceduralName(tile_description, alignment) ==
    <<tile_description, "_">> \o ALIGN \o <<DigitChar(alignment)>>

\* the dict appended to ret by enumerate_gemm_operators
OpDict(tile_description, alignment, data_type) ==
    [name |-> ProceduralName(tile_description, alignment),
     tile_description |-> tile_description,
     alignment |-> alignment,
     data_type |-> data_type,
     swizzle_functor |-> "Identity8",
     runtime |-> NoRuntime]

\* enumerate_gemm_operators: tile descriptions outer, alignments inner
enumerate_gemm_operators(tile_descriptions, data_type, alignments) ==
    [k \in 1..(Len(tile_descriptions) * Len(alignments)) |->
        OpDict(tile_descriptions[((k - 1) \div Len(alignments)) + 1],
               alignments[((k - 1) % Len(alignments)) + 1],
               data_type)]

\* GENERATOR_FUNC_TABLE[self.sm](out_dtype, op_creator=enumerate_gemm_operators)
CatalogOf(alignments, out_dtype) ==
    enumerate_gemm_operators(TileDescriptions(out_dtype), DataType(out_dtype), alignments)

Catalog(out_dtype) == CatalogOf(alignment_constraints, out_dtype)

\* alignment lists a generator may pass (line 131: align1 may be missing)
AlignmentChoices == {<<2, 1>>, <<4, 2>>}

CandidateNames(alignments) ==
    {CatalogOf(alignments, d)[k].name : d \in DTypes, k \in 1..Len(alignments)}

\* shapes requested from select_op
Shapes == {<<4, 8, 12>>, <<3, 4, 8>>}

-----------------------------------------------------------------------------
\* select_op

NoOp == [name |-> <<>>, tile_description |-> "", alignment |-> 0,
         data_type |-> <<>>, swizzle_functor |-> "", runtime |-> NoRuntime]

NoArgs == [M |-> 0, N |-> 0, K |-> 0, out_dtype |-> "", profile_all |-> FALSE]

Pending == [status |-> "pending", op |-> NoOp]
Returned(op) == [status |-> "ok", op |-> op]
Raised(exc) == [status |-> exc, op |-> NoOp]

ShapeOf(a) == <<a.M, a.N, a.K>>

\* an insertion that rebuilds the dict around the new entry
CachePut_clear(c, shape, op) == [s \in {shape} |-> op]

\* self.cache[(M, N, K)] = op
CachePut(c, shape, op) ==
    [s \in (DOMAIN c) \cup {shape} |-> IF s = shape THEN op ELSE c[s]]

\* ops = list(filter(lambda op: self.check_align(op["name"], M, N, K), ops))
FilterOps(all, M, N, K) ==
    SelectSeq(all, LAMBDA op : check_align(op.name, M, N, K) = "True")

\* the exception the filter raises, if check_align raises for some candidate
FilterError(all, M, N, K) ==
    LET bad == {k \in 1..Len(all) : check_align(all[k].name, M, N, K) \notin {"True", "False"}}
    IN IF bad = {} THEN "none"
       ELSE check_align(all[CHOOSE k \in bad : \A j \in bad : k <= j].name, M, N, K)

\* a lookup that never finds the key
InCache_never(c, shape) == FALSE

\* if (M, N, K) in self.cache
InCache(c, shape) == shape \in DOMAIN c

\* the early exit without the test against float("inf")
EarlyExit_any(out, profile_all) == ~profile_all

\* the early exit taken in either mode
EarlyExit_ignoreMode(out, profile_all) == out < Inf

\* if out < float("inf") and not profile_all
EarlyExit(out, profile_all) == out < Inf /\ ~profile_all

\* min(ops, key=lambda i: i["runtime"]): the first element with the least key
RECURSIVE MinFrom(_, _, _)
MinFrom(s, k, best) ==
    IF k > Len(s) THEN best
    ELSE IF s[k].runtime < best.runtime THEN MinFrom(s, k + 1, s[k])
         ELSE MinFrom(s, k + 1, best)

\* ops[0] in place of the minimum
FirstOp(s) == s[1]

\* the minimum with ties going to the last element
RECURSIVE MinFromLast(_, _, _)
MinFromLast(s, k, best) ==
    IF k > Len(s) THEN best
    ELSE IF s[k].runtime <= best.runtime THEN MinFromLast(s, k + 1, s[k])
         ELSE MinFromLast(s, k + 1, best)

MinByRuntime_lastTie(s) == MinFromLast(s, 2, s[1])

\* max in place of min
RECURSIVE MaxFrom(_, _, _)
MaxFrom(s, k, best) ==
    IF k > Len(s) THEN best
    ELSE IF s[k].runtime > best.runtime THEN MaxFrom(s, k + 1, s[k])
         ELSE MaxFrom(s, k + 1, best)

MaxByRuntime(s) == MaxFrom(s, 2, s[1])

MinByRuntime(s) == MinFrom(s, 2, s[1])

Ev(e, what) == [e |-> e, what |-> what]

\* lines 179-195: the cache lookup; on a miss the enumeration, the feasibility
\* filter and, under profile_all, the batch compilation
SelectOpCall(M, N, K, out_dtype, profile_all, use_multiprocessing) ==
    /\ pc \in {"idle", "done"}
    /\ args' = [M |-> M, N |-> N, K |-> K, out_dtype |-> out_dtype,
                profile_all |-> profile_all]
    /\ again' = (pc = "done" /\ ShapeOf(args) = <<M, N, K>> /\ args.out_dtype = out_dtype)
    /\ IF InCache(cache, <<M, N, K>>)
       THEN /\ ret' = Returned(cache[<<M, N, K>>])
            /\ pc' = "done"
            /\ events' = <<>>
            /\ ops' = <<>>
            /\ i' = 0
       ELSE LET all == Catalog(out_dtype) IN
            IF FilterError(all, M, N, K) # "none"
            THEN /\ ret' = Raised(FilterError(all, M, N, K))
                 /\ pc' = "done"
                 /\ events' = <<Ev("enumerate", out_dtype)>>
                 /\ ops' = <<>>
                 /\ i' = 0
            ELSE /\ ret' = Pending
                 /\ ops' = FilterOps(all, M, N, K)
                 /\ events' = IF profile_all
                              THEN <<Ev("enumerate", out_dtype),
                                     Ev("compile_all", <<Len(FilterOps(all, M, N, K)),
                                                         use_multiprocessing>>)>>
                              ELSE <<Ev("enumerate", out_dtype)>>
                 /\ pc' = "loop"
                 /\ i' = 1
    /\ UNCHANGED <<alignment_constraints, rt, cache, ca_args, ca_ret>>

\* lines 197-202: one iteration of the loop over ops
Evaluate ==
    /\ pc = "loop"
    /\ i <= Len(ops)
    /\ LET out == rt[ops[i].name]
           op == [ops[i] EXCEPT !.runtime = out]
       IN /\ events' = Append(events, Ev("evaluate", op.name))
          /\ IF EarlyExit(out, args.profile_all)
             THEN /\ cache' = CachePut(cache, ShapeOf(args), op)
                  /\ ret' = Returned(op)
                  /\ pc' = "done"
                  /\ ops' = <<>>
                  /\ i' = 0
             ELSE /\ ops' = [ops EXCEPT ![i] = op]
                  /\ i' = i + 1
                  /\ UNCHANGED <<cache, ret, pc>>
    /\ UNCHANGED <<alignment_constraints, rt, args, again, ca_args, ca_ret>>

\* min(ops, key=..., default=None): an empty list is cached and returned as a result
SelectMin_default ==
    /\ pc = "loop"
    /\ i > Len(ops)
    /\ IF ops = <<>>
       THEN /\ cache' = CachePut(cache, ShapeOf(args), NoOp)
            /\ ret' = Returned(NoOp)
       ELSE /\ cache' = CachePut(cache, ShapeOf(args), MinByRuntime(ops))
            /\ ret' = Returned(MinByRuntime(ops))
    /\ pc' = "done"
    /\ ops' = <<>>
    /\ i' = 0
    /\ UNCHANGED <<alignment_constraints, rt, args, events, again, ca_args, ca_ret>>

\* lines 204-206: min over the evaluated candidates, cache insertion, return
\* (min raises ValueError on an empty list)
SelectMin ==
    /\ pc = "loop"
    /\ i > Len(ops)
    /\ IF ops = <<>>
       THEN /\ ret' = Raised("ValueError")
            /\ UNCHANGED cache
       ELSE /\ cache' = CachePut(cache, ShapeOf(args), MinByRuntime(ops))
            /\ ret' = Returned(MinByRuntime(ops))
    /\ pc' = "done"
    /\ ops' = <<>>
    /\ i' = 0
    /\ UNCHANGED <<alignment_constraints, rt, args, events, again, ca_args, ca_ret>>

NoCheck == [segs |-> <<>>, op_name |-> <<>>, M |-> 1, N |-> 1, K |-> 1]

\* the architecture whose generator passes a given alignment list
SmOf(alignments) == IF alignments = <<2, 1>> THEN 75 ELSE 80

Constructed(sm) == [status |-> "ok", sm |-> sm]

NoOpdef == [tile_description |-> "", alignment |-> 0, data_type |-> <<>>,
            epilogue |-> "", no_beta_scaling |-> FALSE,
            swizzling_functor |-> "", batched |-> FALSE]

\* what profile or get_default hands back: profile returns (name, opdef,
\* runtime); get_default returns the catalog dict op with "name" and "opdef" set
ApiOut(status, name, opdef, runtime, op) ==
    [status |-> status, name |-> name, opdef |-> opdef, runtime |-> runtime, op |-> op]

\* no instantiation requested: the caller used select_op directly
NoInstance == ApiOut("none", <<>>, NoOpdef, NoRuntime, NoOp)

PendingInstance == ApiOut("pending", <<>>, NoOpdef, NoRuntime, NoOp)

ApiRaised(exc) == ApiOut(exc, <<>>, NoOpdef, NoRuntime, NoOp)

ApiCall(call, op_type, out_dtype, batched, out) ==
    [call |-> call, op_type |-> op_type, out_dtype |-> out_dtype,
     batched |-> batched, out |-> out]

NoApi == ApiCall("select_op", "", "", FALSE, NoInstance)

NoThreads == <<>>

\* the state after CutlassGemmProfiler.__init__, for a catalog and an engine
Init ==
    /\ alignment_constraints \in AlignmentChoices
    /\ rt \in [CandidateNames(alignment_constraints) -> Runtimes]
    /\ cache = [s \in {} |-> NoOp]
    /\ pc = "idle"
    /\ args = NoArgs
    /\ ops = <<>>
    /\ i = 0
    /\ ret = Pending
    /\ events = <<>>
    /\ again = FALSE
    /\ ca_args = NoCheck
    /\ ca_ret = "none"
    /\ inst = Constructed(SmOf(alignment_constraints))
    /\ api = NoApi
    /\ th = NoThreads

Next ==
    \/ /\ \E s \in Shapes, d \in DTypes, pa \in BOOLEAN, mp \in BOOLEAN :
             SelectOpCall(s[1], s[2], s[3], d, pa, mp)
       /\ UNCHANGED apivars
    \/ Evaluate /\ UNCHANGED apivars
    \/ SelectMin /\ UNCHANGED apivars

Spec == Init /\ [][Next]_vars

-----------------------------------------------------------------------------
\* Direct calls of check_align on names assembled from segments.

SegFiller == <<"t", "n", "_">>
SegAlign3 == ALIGN \o <<"3">>
SegToken(a) == ALIGN \o <<DigitChar(a)>>

TokenValues == {1, 2, 4, 8}

\* segment ids: 0 is the filler, 3 the non-token "align3", a \in TokenValues
\* the token "align<a>"
SegIds == {0, 3} \cup TokenValues

SegText(id) == IF id = 0 THEN SegFiller ELSE IF id = 3 THEN SegAlign3 ELSE SegToken(id)

RECURSIVE Concat(_)
Concat(segs) == IF segs = <<>> THEN <<>> ELSE SegText(Head(segs)) \o Concat(Tail(segs))

SegLists == UNION {[1..n -> SegIds] : n \in 0..MaxSegs}

AlignDims == 1..MaxAlignDim

InitAlign ==
    /\ alignment_constraints = <<2, 1>>
    /\ rt = [n \in CandidateNames(<<2, 1>>) |-> Inf]
    /\ cache = [s \in {} |-> NoOp]
    /\ pc = "idle"
    /\ args = NoArgs
    /\ ops = <<>>
    /\ i = 0
    /\ ret = Pending
    /\ events = <<>>
    /\ again = FALSE
    /\ \E segs \in SegLists, M \in AlignDims, N \in AlignDims, K \in AlignDims :
          ca_args = [segs |-> segs, op_name |-> Concat(segs), M |-> M, N |-> N, K |-> K]
    /\ ca_ret = "none"
    /\ inst = Constructed(75)
    /\ api = NoApi
    /\ th = NoThreads

\* self.check_align(op_name, M, N, K)
CheckAlignCall ==
    /\ ca_ret = "none"
    /\ ca_ret' = check_align(ca_args.op_name, ca_args.M, ca_args.N, ca_args.K)
    /\ UNCHANGED <<alignment_constraints, rt, cache, pc, args, ops, i, ret, events, again,
                   ca_args>>

NextAlign == CheckAlignCall /\ UNCHANGED apivars

SpecAlign == InitAlign /\ [][NextAlign]_vars

-----------------------------------------------------------------------------
\* The public interface: construction, select_op, profile and get_default.

\* keys of GENERATOR_FUNC_TABLE
GeneratorKeys == {75, 80}

\* keys of DEFAULT_KERNELS
DefaultKernelKeys == {75, 80}

\* architectures a caller may ask for
SmChoices == {70, 75, 80, 86}

\* the alignment list the generator of an architecture passes
GeneratorAlignments(sm) == IF sm = 75 THEN <<2, 1>> ELSE <<4, 2>>

\* a constructor without the assertion
Supported_any(sm) == TRUE

\* assert sm in GENERATOR_FUNC_TABLE and sm in DEFAULT_KERNELS
Supported(sm) == sm \in GeneratorKeys /\ sm \in DefaultKernelKeys

\* what the engine built by the constructor reports for a candidate: a
\* measurement or float("inf")
EngineOutcomes == {1, Inf}

NotConstructed == [status |-> "none", sm |-> 0]

NoEngine == [n \in {} |-> Inf]

NoCache == [s \in {} |-> NoOp]

\* before CutlassGemmProfiler(sm, ...) is called
InitAPI ==
    /\ alignment_constraints = <<>>
    /\ rt = NoEngine
    /\ cache = NoCache
    /\ pc = "idle"
    /\ args = NoArgs
    /\ ops = <<>>
    /\ i = 0
    /\ ret = Pending
    /\ events = <<>>
    /\ again = FALSE
    /\ ca_args = NoCheck
    /\ ca_ret = "none"
    /\ inst = NotConstructed
    /\ api = NoApi
    /\ th = NoThreads

\* CutlassGemmProfiler.__init__ (lines 142-146)
Construct(sm) ==
    /\ inst.status = "none"
    /\ IF Supported(sm)
       THEN /\ inst' = Constructed(sm)
            /\ alignment_constraints' = GeneratorAlignments(sm)
            /\ rt' \in [CandidateNames(GeneratorAlignments(sm)) -> EngineOutcomes]
            /\ cache' = NoCache
       ELSE /\ inst' = [status |-> "AssertionError", sm |-> sm]
            /\ UNCHANGED <<alignment_constraints, rt, cache>>
    /\ UNCHANGED <<pc, args, ops, i, ret, events, again, ca_args, ca_ret, api, th>>

\* keys of EPILOGUE_MAP
EpilogueKeys == {"cutlass.dense", "cutlass.dense_bias_relu"}

\* EPILOGUE_MAP[op_type]: (epilogue, no_beta_scaling)
EPILOGUE_MAP(op_type) ==
    IF op_type = "cutlass.dense"
    THEN <<"LinearCombination", FALSE>>
    ELSE <<"LinearCombinationRelu", TRUE>>

\* operator kinds a caller may pass
OpTypes == EpilogueKeys \cup {"cutlass.unknown"}

\* the (op_type, batched) pairs a caller passes to profile and get_default
Requests == {<<"cutlass.dense", FALSE>>, <<"cutlass.dense_bias_relu", TRUE>>,
             <<"cutlass.unknown", FALSE>>}

\* create_gemm_operator_with_epilogue (lines 32-68)
create_gemm_operator_with_epilogue(op_type, tile_description, data_type, alignment, swizzling_functor, batched) ==
    IF op_type \notin EpilogueKeys
    THEN [status |-> "KeyError", name |-> <<>>, opdef |-> NoOpdef]
    ELSE [status |-> "ok",
          name |-> ProceduralName(tile_description, alignment),
          opdef |-> [tile_description |-> tile_description,
                     alignment |-> alignment,
                     data_type |-> data_type,
                     epilogue |-> EPILOGUE_MAP(op_type)[1],
                     no_beta_scaling |-> EPILOGUE_MAP(op_type)[2],
                     swizzling_functor |-> IF batched THEN "Batched"
                                           ELSE swizzling_functor,
                     batched |-> batched]]

\* DEFAULT_KERNELS[sm][out_dtype]: the align1 kernel of the family, for 75 and 80
DEFAULT_KERNELS(sm, out_dtype) ==
    IF out_dtype = "float16"
    THEN <<"h", "_">> \o ALIGN \o <<"1">>
    ELSE <<"s", "_">> \o ALIGN \o <<"1">>

\* a filter that takes the head of the catalog whatever the table names
DefaultFilter_first(all, default_kernel_name) == <<all[1]>>

\* filtered = list(filter(lambda op: op["name"] == default_kernel_name, ops))
DefaultFilter(all, default_kernel_name) ==
    SelectSeq(all, LAMBDA op : op.name = default_kernel_name)

\* get_default (lines 159-177) on the catalog of the profiler's architecture
get_default(sm, all, op_type, out_dtype, batched) ==
    LET filtered == DefaultFilter(all, DEFAULT_KERNELS(sm, out_dtype))
    IN IF Len(filtered) # 1
       THEN ApiRaised("AssertionError")
       ELSE LET op == filtered[1]
                made == create_gemm_operator_with_epilogue(
                            op_type, op.tile_description, op.data_type,
                            op.alignment, op.swizzle_functor, batched)
            IN IF made.status # "ok"
               THEN ApiRaised(made.status)
               ELSE ApiOut("ok", made.name, made.opdef, NoRuntime,
                           [op EXCEPT !.name = made.name])

\* profile is inside its select_op call
ProfilePending == api.call = "profile" /\ api.out.status = "pending"

\* a direct select_op call on the constructed profiler, use_multiprocessing
\* at its default
ApiSelectOp ==
    /\ inst.status = "ok"
    /\ ~ProfilePending
    /\ \E s \in Shapes, d \in DTypes, pa \in BOOLEAN :
          SelectOpCall(s[1], s[2], s[3], d, pa, FALSE)
    /\ api' = NoApi
    /\ UNCHANGED <<inst, th>>

\* profile, line 223: the call of select_op with the caller's arguments
ProfileCall(op_type, batched) ==
    /\ inst.status = "ok"
    /\ ~ProfilePending
    /\ \E s \in Shapes, d \in DTypes, pa \in BOOLEAN :
          /\ SelectOpCall(s[1], s[2], s[3], d, pa, FALSE)
          /\ api' = ApiCall("profile", op_type, d, batched, PendingInstance)
    /\ UNCHANGED <<inst, th>>

\* what profile returns once select_op has returned op or raised
ProfileOut(op_type, batched, r) ==
    IF r.status # "ok"
    THEN ApiRaised(r.status)
    ELSE LET made == create_gemm_operator_with_epilogue(
                         op_type, r.op.tile_description, r.op.data_type,
                         r.op.alignment, r.op.swizzle_functor, batched)
         IN IF made.status # "ok"
            THEN ApiRaised(made.status)
            ELSE ApiOut("ok", made.name, made.opdef, r.op.runtime, NoOp)

\* a profile that stores the instantiated swizzle in the dict select_op returned
ProfileReturn_update ==
    /\ ProfilePending
    /\ pc = "done"
    /\ api' = [api EXCEPT !.out = ProfileOut(api.op_type, api.batched, ret)]
    /\ cache' = IF api'.out.status = "ok"
                THEN CachePut(cache, ShapeOf(args),
                              [ret.op EXCEPT !.swizzle_functor =
                                   api'.out.opdef.swizzling_functor])
                ELSE cache
    /\ UNCHANGED <<alignment_constraints, rt, pc, args, ops, i, ret, events,
                   again, ca_args, ca_ret, inst, th>>

\* profile, lines 227-236: instantiate the selected op and return
ProfileReturn ==
    /\ ProfilePending
    /\ pc = "done"
    /\ api' = [api EXCEPT !.out = ProfileOut(api.op_type, api.batched, ret)]
    /\ UNCHANGED <<alignment_constraints, rt, cache, pc, args, ops, i, ret, events,
                   again, ca_args, ca_ret, inst, th>>

\* a get_default that starts from an empty cache
GetDefault_reset(op_type, out_dtype, batched) ==
    /\ inst.status = "ok"
    /\ pc \in {"idle", "done"}
    /\ ~ProfilePending
    /\ api' = ApiCall("get_default", op_type, out_dtype, batched,
                      get_default(inst.sm, Catalog(out_dtype), op_type, out_dtype, batched))
    /\ events' = <<Ev("enumerate", out_dtype)>>
    /\ pc' = "done"
    /\ args' = NoArgs
    /\ ret' = Pending
    /\ again' = FALSE
    /\ cache' = NoCache
    /\ UNCHANGED <<alignment_constraints, rt, ops, i, ca_args, ca_ret, inst, th>>

\* get_default (lines 159-177): one enumeration, the lookup and the instantiation
GetDefault(op_type, out_dtype, batched) ==
    /\ inst.status = "ok"
    /\ pc \in {"idle", "done"}
    /\ ~ProfilePending
    /\ api' = ApiCall("get_default", op_type, out_dtype, batched,
                      get_default(inst.sm, Catalog(out_dtype), op_type, out_dtype, batched))
    /\ events' = <<Ev("enumerate", out_dtype)>>
    /\ pc' = "done"
    /\ args' = NoArgs
    /\ ret' = Pending
    /\ again' = FALSE
    /\ UNCHANGED <<alignment_constraints, rt, cache, ops, i, ca_args, ca_ret, inst, th>>

NextAPI ==
    \/ \E sm \in SmChoices : Construct(sm)
    \/ ApiSelectOp
    \/ \E q \in Requests : ProfileCall(q[1], q[2])
    \/ ProfileReturn
    \/ \E q \in Requests, d \in DTypes : GetDefault(q[1], d, q[2])
    \/ Evaluate /\ UNCHANGED apivars
    \/ SelectMin /\ UNCHANGED apivars

SpecAPI == InitAPI /\ [][NextAPI]_vars

-----------------------------------------------------------------------------
\* Two threads calling select_op with the same shape on one profiler.  Each
\* call has its own locals (ops, op, out); self.cache and self.engine are shared.

Threads == {1, 2}

\* the locals of one select_op call
Frame(pc_, out_dtype, profile_all, ops_, i_, missed, ret_) ==
    [pc |-> pc_, out_dtype |-> out_dtype, profile_all |-> profile_all,
     ops |-> ops_, i |-> i_, missed |-> missed, ret |-> ret_]

InitConc ==
    /\ alignment_constraints \in AlignmentChoices
    /\ rt \in [CandidateNames(alignment_constraints) -> Runtimes]
    /\ cache = NoCache
    /\ pc = "idle"
    /\ \E s \in Shapes :
          args = [M |-> s[1], N |-> s[2], K |-> s[3], out_dtype |-> "",
                  profile_all |-> FALSE]
    /\ ops = <<>>
    /\ i = 0
    /\ ret = Pending
    /\ events = <<>>
    /\ again = FALSE
    /\ ca_args = NoCheck
    /\ ca_ret = "none"
    /\ inst = Constructed(SmOf(alignment_constraints))
    /\ api = NoApi
    /\ th \in [Threads -> {Frame("start", d, pa, <<>>, 0, FALSE, Pending) :
                              d \in DTypes, pa \in BOOLEAN}]

\* lines 184-195 in thread t: the lookup, and on a miss the enumeration and
\* the filter
ThreadCall(t) ==
    /\ th[t].pc = "start"
    /\ IF InCache(cache, ShapeOf(args))
       THEN th' = [th EXCEPT ![t].pc = "done",
                             ![t].ret = Returned(cache[ShapeOf(args)])]
       ELSE th' = [th EXCEPT ![t].pc = "loop",
                             ![t].missed = TRUE,
                             ![t].i = 1,
                             ![t].ops = FilterOps(Catalog(th[t].out_dtype),
                                                  args.M, args.N, args.K)]
    /\ UNCHANGED <<alignment_constraints, rt, cache, pc, args, ops, i, ret, events,
                   again, ca_args, ca_ret, inst, api>>

\* lines 197-202 in thread t: one iteration of the loop
ThreadEvaluate(t) ==
    /\ th[t].pc = "loop"
    /\ th[t].i <= Len(th[t].ops)
    /\ LET out == rt[th[t].ops[th[t].i].name]
           op == [th[t].ops[th[t].i] EXCEPT !.runtime = out]
       IN IF EarlyExit(out, th[t].profile_all)
          THEN /\ cache' = CachePut(cache, ShapeOf(args), op)
               /\ th' = [th EXCEPT ![t].pc = "done", ![t].ret = Returned(op),
                                   ![t].ops = <<>>, ![t].i = 0]
          ELSE /\ th' = [th EXCEPT ![t].ops[th[t].i] = op, ![t].i = th[t].i + 1]
               /\ UNCHANGED cache
    /\ UNCHANGED <<alignment_constraints, rt, pc, args, ops, i, ret, events,
                   again, ca_args, ca_ret, inst, api>>

\* lines 204-206 in thread t
ThreadSelectMin(t) ==
    /\ th[t].pc = "loop"
    /\ th[t].i > Len(th[t].ops)
    /\ IF th[t].ops = <<>>
       THEN /\ th' = [th EXCEPT ![t].pc = "done", ![t].ret = Raised("ValueError"),
                                ![t].i = 0]
            /\ UNCHANGED cache
       ELSE /\ cache' = CachePut(cache, ShapeOf(args), MinByRuntime(th[t].ops))
            /\ th' = [th EXCEPT ![t].pc = "done",
                                ![t].ret = Returned(MinByRuntime(th[t].ops)),
                                ![t].ops = <<>>, ![t].i = 0]
    /\ UNCHANGED <<alignment_constraints, rt, pc, args, ops, i, ret, events,
                   again, ca_args, ca_ret, inst, api>>

NextConc ==
    \/ \E t \in Threads : ThreadCall(t)
    \/ \E t \in Threads : ThreadEvaluate(t)
    \/ \E t \in Threads : ThreadSelectMin(t)

SpecConc == InitConc /\ [][NextConc]_vars

-----------------------------------------------------------------------------
\* Vocabulary of the properties.  Feasibility is read off the candidate's
\* alignment field, not parsed from its name.

Multiple(n, a) == \E q \in 0..n : n = a * q

Divides(a, shape) == \A j \in 1..3 : Multiple(shape[j], a)

Feasible(shape, out_dtype) ==
    SelectSeq(Catalog(out_dtype), LAMBDA op : Divides(op.alignment, shape))

FeasibleRuntimes(shape, out_dtype) ==
    {rt[Feasible(shape, out_dtype)[k].name] : k \in 1..Len(Feasible(shape, out_dtype))}

HasFinite(shape, out_dtype) == \E r \in FeasibleRuntimes(shape, out_dtype) : r < Inf

Least(S) == CHOOSE r \in S : \A r2 \in S : r <= r2

Done == pc = "done"
Hit == Done /\ events = <<>>
Miss == Done /\ events # <<>>
NoEvaluate(evs) == \A k \in 1..Len(evs) : evs[k].e # "evaluate"

\* C1 as stated: whenever a select_op call follows a finished call with the same
\* shape and out_dtype, it finishes at once with the same result and without
\* enumerating, compiling or evaluating anything.
C1_AnyRepeat ==
    [][(pc = "done" /\ ShapeOf(args') = ShapeOf(args) /\ args'.out_dtype = args.out_dtype)
         => (pc' = "done" /\ ret' = ret /\ events' = <<>>)]_vars

\* C1, amended: whenever a select_op call follows a call with the same shape and
\* out_dtype that returned a candidate, it returns the identical candidate at
\* once, with no enumeration, no compile_all and no evaluate.
C1_RepeatIsCacheHit ==
    [][(pc = "done" /\ ret.status = "ok"
          /\ ShapeOf(args') = ShapeOf(args) /\ args'.out_dtype = args.out_dtype)
         => (pc' = "done" /\ ret' = ret /\ events' = <<>>)]_vars

\* a call that repeated the shape and out_dtype of the call before it was served
\* from the cache
C1_Witness == Done /\ again /\ ret.status = "ok" /\ events = <<>>

\* C2: every cache entry under key (M, N, K) and every candidate returned for
\* (M, N, K) has an alignment that divides M, N and K.
C2_CacheFeasible ==
    /\ \A s \in DOMAIN cache : Divides(cache[s].alignment, s)
    /\ (Done /\ ret.status = "ok") => Divides(ret.op.alignment, ShapeOf(args))

\* a returned, cached candidate for a shape that rules out another candidate of
\* the catalog
C2_Witness ==
    /\ Done /\ ret.status = "ok"
    /\ ShapeOf(args) \in DOMAIN cache /\ cache[ShapeOf(args)] = ret.op
    /\ \E k \in 1..Len(Catalog(args.out_dtype)) :
          ~Divides(Catalog(args.out_dtype)[k].alignment, ShapeOf(args))

\* C3 as stated: no cache entry carries an infinite runtime, and a search in
\* which every feasible candidate evaluates to the infinite sentinel ends in a
\* failure and leaves no entry for the shape.
C3_ExhaustedNotCached ==
    /\ \A s \in DOMAIN cache : cache[s].runtime < Inf
    /\ (Miss /\ Feasible(ShapeOf(args), args.out_dtype) # <<>>
             /\ ~HasFinite(ShapeOf(args), args.out_dtype))
         => (ret.status \notin {"ok", "pending"} /\ ShapeOf(args) \notin DOMAIN cache)

\* C4 as stated, for calls answered with a candidate of the requested family:
\* every call with profile_all=true, cache hit or not, returns a candidate whose
\* runtime is the least finite runtime among the feasible candidates.
C4_AlwaysMinimum ==
    (Done /\ args.profile_all /\ HasFinite(ShapeOf(args), args.out_dtype)
          /\ (ret.status = "ok" => ret.op.data_type = DataType(args.out_dtype)))
      => (ret.status = "ok"
          /\ ret.op.runtime = Least(FeasibleRuntimes(ShapeOf(args), args.out_dtype)))

\* C4, amended: every call with profile_all=true that misses the cache returns,
\* when some feasible candidate has a finite runtime, a candidate whose runtime
\* is the least finite runtime among the feasible candidates.
C4_MinimumOnMiss ==
    (Miss /\ args.profile_all /\ HasFinite(ShapeOf(args), args.out_dtype))
      => (ret.status = "ok"
          /\ ret.op.runtime < Inf
          /\ ret.op.runtime = Least(FeasibleRuntimes(ShapeOf(args), args.out_dtype)))

\* a full search whose winner is strictly faster than an earlier finite candidate
C4_Witness ==
    /\ Miss /\ args.profile_all /\ ret.status = "ok"
    /\ LET F == Feasible(ShapeOf(args), args.out_dtype) IN
       \E j, k \in 1..Len(F) :
          /\ j < k /\ F[k].name = ret.op.name
          /\ rt[F[k].name] < rt[F[j].name] /\ rt[F[j].name] < Inf

\* C5: a call with profile_all=true that misses the cache returns a candidate
\* whenever some feasible candidate has a finite runtime, and the candidate it
\* returns is the feasible candidate of least runtime, among several of least
\* runtime the first in enumeration order.
C5_MinimumFirstOnTie ==
    (Miss /\ args.profile_all)
      => LET F == Feasible(ShapeOf(args), args.out_dtype) IN
         /\ HasFinite(ShapeOf(args), args.out_dtype) => ret.status = "ok"
         /\ ret.status = "ok" =>
              \E k \in 1..Len(F) :
                /\ ret.op = [F[k] EXCEPT !.runtime = rt[F[k].name]]
                /\ \A j \in 1..Len(F) : rt[F[k].name] <= rt[F[j].name]
                /\ \A j \in 1..(k - 1) : rt[F[k].name] < rt[F[j].name]

\* a full search with two candidates tied for the least finite runtime, won by
\* the earlier one
C5_Witness ==
    /\ Miss /\ args.profile_all /\ ret.status = "ok" /\ ret.op.runtime < Inf
    /\ LET F == Feasible(ShapeOf(args), args.out_dtype) IN
       \E j, k \in 1..Len(F) :
          /\ j < k /\ F[j].name = ret.op.name
          /\ rt[F[k].name] = rt[F[j].name]

\* C6: a call with profile_all=false that misses the cache returns and caches
\* the first feasible candidate in enumeration order whose runtime is finite.
C6_FirstFinite ==
    (Miss /\ ~args.profile_all /\ HasFinite(ShapeOf(args), args.out_dtype))
      => LET F == Feasible(ShapeOf(args), args.out_dtype) IN
         /\ ret.status = "ok"
         /\ \E k \in 1..Len(F) :
              /\ ret.op = [F[k] EXCEPT !.runtime = rt[F[k].name]]
              /\ rt[F[k].name] < Inf
              /\ \A j \in 1..(k - 1) : rt[F[j].name] = Inf
         /\ ShapeOf(args) \in DOMAIN cache
         /\ cache[ShapeOf(args)] = ret.op

\* an early-exit search that returned a candidate although a later one is faster
C6_Witness ==
    /\ Miss /\ ~args.profile_all /\ ret.status = "ok"
    /\ LET F == Feasible(ShapeOf(args), args.out_dtype) IN
       \E j, k \in 1..Len(F) :
          /\ j < k /\ F[j].name = ret.op.name
          /\ rt[F[k].name] < rt[F[j].name]

C8_NoFeasibleFails ==
    [][(pc' # "idle" /\ Feasible(ShapeOf(args'), args'.out_dtype) = <<>>)
         => /\ cache' = cache
            /\ NoEvaluate(events')
            /\ pc' = "done" => ret'.status = "ValueError"]_vars

\* a finished call for a shape without feasible candidates
C8_Witness ==
    /\ Done /\ Feasible(ShapeOf(args), args.out_dtype) = <<>>
    /\ ret.status = "ValueError" /\ events # <<>>

\* number of alignment tokens a name was assembled from
TokenCount(segs) == Cardinality({k \in 1..Len(segs) : segs[k] \in TokenValues})

\* C9: for a name with exactly one alignment token, of value a, check_align
\* returns a verdict, and the verdict is true iff M, N and K are multiples of a.
C9_AlignIff ==
    (ca_ret # "none" /\ TokenCount(ca_args.segs) = 1)
      => \A k \in 1..Len(ca_args.segs) :
            ca_args.segs[k] \in TokenValues
              => /\ ca_ret \in {"True", "False"}
                 /\ (ca_ret = "True") <=>
                      Divides(ca_args.segs[k], <<ca_args.M, ca_args.N, ca_args.K>>)

\* align8 with one dimension one less than a multiple of 8 is refused
C9_Witness ==
    /\ ca_ret = "False" /\ TokenCount(ca_args.segs) = 1
    /\ \E k \in 1..Len(ca_args.segs) : ca_args.segs[k] = 8
    /\ ca_args.M = 8 /\ ca_args.N = 8 /\ ca_args.K = 7

\* C10: for a name with no alignment token, or with more than one, check_align
\* raises and returns no verdict.
C10_MalformedName ==
    (ca_ret # "none" /\ TokenCount(ca_args.segs) # 1) => ca_ret = "AssertionError"

\* a name with two tokens was refused although the dimensions suit both
C10_Witness ==
    /\ ca_ret = "AssertionError" /\ TokenCount(ca_args.segs) = 2
    /\ ca_args.M = 8 /\ ca_args.N = 8 /\ ca_args.K = 8

\* C11: a profiler exists only for an architecture present in both tables; for
\* any other architecture construction raises, and no engine, no cache and no
\* select_op, get_default or profile call ever exists.
C11_UnsupportedFailsConstruction ==
    /\ inst.status = "ok" => (inst.sm \in GeneratorKeys /\ inst.sm \in DefaultKernelKeys)
    /\ (inst.status # "none" /\ ~(inst.sm \in GeneratorKeys /\ inst.sm \in DefaultKernelKeys))
         => /\ inst.status = "AssertionError"
            /\ rt = NoEngine /\ cache = NoCache
            /\ pc = "idle" /\ ret = Pending /\ events = <<>> /\ api = NoApi

\* construction was asked for architecture 70 and raised
C11_Witness == inst.status = "AssertionError" /\ inst.sm = 70

\* C12: get_default raises the assertion error and returns no candidate
\* whenever the name DEFAULT_KERNELS holds for (sm, out_dtype) is not the name
\* of exactly one catalog candidate; when it is, and the epilogue kind is
\* known, get_default returns a candidate with the tile description, alignment
\* and swizzle of that catalog entry.
C12_DefaultResolved ==
    (inst.status = "ok" /\ api.call = "get_default") =>
        LET all == CatalogOf(GeneratorAlignments(inst.sm), api.out_dtype)
            hits == {k \in 1..Len(all) :
                        all[k].name = DEFAULT_KERNELS(inst.sm, api.out_dtype)}
        IN /\ Cardinality(hits) # 1 =>
                 /\ api.out.status = "AssertionError"
                 /\ api.out.op = NoOp /\ api.out.name = <<>> /\ api.out.opdef = NoOpdef
           /\ Cardinality(hits) = 1 =>
                 LET entry == all[CHOOSE k \in hits : TRUE]
                 IN /\ api.op_type \in EpilogueKeys => api.out.status = "ok"
                    /\ api.out.status = "ok" =>
                          /\ api.out.op.tile_description = entry.tile_description
                          /\ api.out.op.alignment = entry.alignment
                          /\ api.out.op.swizzle_functor = entry.swizzle_functor

\* get_default was called on the sm80 profiler, whose catalog has no align1
\* candidate, and raised
C12_Witness ==
    /\ inst = Constructed(80)
    /\ api.call = "get_default"
    /\ api.out.status = "AssertionError"

\* C13: in a select_op call that misses the cache with profile_all=true the
\* engine sees one compile_all of the whole feasible list and then one evaluate
\* per feasible candidate, in enumeration order; the cache has no entry for the
\* shape while candidates remain unmeasured, and the one insertion comes after
\* the last evaluate.
C13_ProfileAllOrder ==
    (pc \in {"loop", "done"} /\ events # <<>> /\ args.profile_all) =>
        LET F == Feasible(ShapeOf(args), args.out_dtype)
            n == Len(events) - 2
        IN /\ Len(events) >= 2
           /\ events[1].e = "enumerate"
           /\ events[2].e = "compile_all" /\ events[2].what[1] = Len(F)
           /\ n <= Len(F)
           /\ \A k \in 1..n : events[k + 2] = Ev("evaluate", F[k].name)
           /\ pc = "loop" => (n = i - 1 /\ ShapeOf(args) \notin DOMAIN cache)
           /\ pc = "done" => n = Len(F)
           /\ (pc = "done" /\ ret.status = "ok") =>
                 (ShapeOf(args) \in DOMAIN cache /\ cache[ShapeOf(args)] = ret.op)

\* a full search over two feasible candidates finished, the first of which had
\* a finite runtime
C13_Witness ==
    /\ Done /\ args.profile_all /\ ret.status = "ok"
    /\ Len(events) = 4
    /\ rt[Feasible(ShapeOf(args), args.out_dtype)[1].name] < Inf
    /\ cache[ShapeOf(args)] = ret.op

\* C14 as stated: in a select_op call that misses the cache with
\* profile_all=false the engine operations are exactly the evaluates of the
\* feasible candidates in enumeration order up to and including the returned
\* winner, with no compile_all and no evaluate after a finite runtime.
C14_EarlyExitPrefix ==
    (pc \in {"loop", "done"} /\ events # <<>> /\ ~args.profile_all) =>
        LET F == Feasible(ShapeOf(args), args.out_dtype)
            n == Len(events) - 1
        IN /\ events[1].e = "enumerate"
           /\ n <= Len(F)
           /\ \A k \in 1..n : events[k + 1] = Ev("evaluate", F[k].name)
           /\ \A k \in 1..(n - 1) : rt[F[k].name] = Inf
           /\ (pc = "done" /\ ret.status = "ok") =>
                 (n >= 1 /\ ret.op.name = F[n].name)

\* C15: the cache is keyed by the shape alone: a select_op call whose shape has
\* an entry returns that entry at once and unchanged, whatever out_dtype,
\* profile_all and use_multiprocessing it passes.
C15_ShapeOnlyKey ==
    [][(pc \in {"idle", "done"} /\ ShapeOf(args') \in DOMAIN cache)
         => /\ pc' = "done"
            /\ ret' = Returned(cache[ShapeOf(args')])
            /\ events' = <<>>
            /\ cache' = cache]_vars

\* a call was served an entry of the other data-type family
C15_Witness ==
    /\ Hit /\ ret.status = "ok"
    /\ ret.op = cache[ShapeOf(args)]
    /\ ret.op.data_type # DataType(args.out_dtype)

\* C19: once a shape has a cache entry, no later select_op, profile or
\* get_default step replaces, modifies or removes it; the set of cached shapes
\* only grows.
C19_WriteOnce ==
    [][\A s \in DOMAIN cache : s \in DOMAIN cache' /\ cache'[s] = cache[s]]_vars

\* a profile call for the other data-type family and with profile_all=true
\* returned from a shape that was cached by an earlier call
C19_Witness ==
    /\ api.call = "profile" /\ api.out.status = "ok"
    /\ Hit /\ args.profile_all
    /\ cache[ShapeOf(args)].data_type # DataType(args.out_dtype)
    /\ Cardinality(DOMAIN cache) = 2

\* C20: a select_op call for (M, N, K) changes the cache at most at the key
\* (M, N, K): no key is removed, no other key is added and every entry under
\* another shape keeps its value, in each step of the call and whether it
\* returns, hits the cache or raises.
C20_OnlyOwnKey ==
    [][/\ DOMAIN cache \subseteq DOMAIN cache'
       /\ DOMAIN cache' \subseteq (DOMAIN cache) \cup {ShapeOf(args')}
       /\ \A s \in DOMAIN cache : s # ShapeOf(args') => cache'[s] = cache[s]]_vars

\* a search stored its winner next to the entry of another shape
C20_Witness ==
    /\ Miss /\ ret.status = "ok"
    /\ Cardinality(DOMAIN cache) = 2
    /\ cache[ShapeOf(args)] = ret.op

\* C16: the instantiation at the end of profile does not touch the selection:
\* a profile call for a cached shape is served the cached entry, and whatever
\* op_type and batched it passes, what it returns carries the entry's runtime
\* and an instance built from the entry's tile description, alignment and data
\* types, and the cache is left as it was.
C16_ProfileKeepsSelection ==
    [][/\ (pc \in {"idle", "done"} /\ api'.call = "profile"
             /\ api'.out.status = "pending" /\ ShapeOf(args') \in DOMAIN cache)
          => (cache' = cache /\ ret' = Returned(cache[ShapeOf(args')]))
       /\ (ProfilePending /\ api'.out.status # "pending")
          => /\ cache' = cache
             /\ (ret.status = "ok" /\ api.op_type \in EpilogueKeys)
                   => api'.out.status = "ok"
             /\ api'.out.status = "ok"
                   => /\ ShapeOf(args) \in DOMAIN cache
                      /\ LET entry == cache[ShapeOf(args)]
                         IN /\ api'.out.runtime = entry.runtime
                            /\ api'.out.opdef.tile_description = entry.tile_description
                            /\ api'.out.opdef.alignment = entry.alignment
                            /\ api'.out.opdef.data_type = entry.data_type]_vars

\* a batched profile call with a fused epilogue returned from a cache hit, its
\* instance carrying the batched swizzle while the entry keeps its own
C16_Witness ==
    /\ api.call = "profile" /\ api.out.status = "ok" /\ Hit
    /\ api.batched /\ api.out.opdef.swizzling_functor = "Batched"
    /\ api.out.opdef.epilogue = "LinearCombinationRelu"
    /\ cache[ShapeOf(args)].swizzle_functor = "Identity8"
    /\ api.out.runtime = cache[ShapeOf(args)].runtime

\* C17: a get_default call leaves the cache, the engine and the profiler as
\* they were and issues neither compile_all nor evaluate, so select_op calls
\* after it find what they would have found without it.
C17_DefaultBypassesSearch ==
    [][api'.call = "get_default"
         => /\ cache' = cache
            /\ rt' = rt
            /\ inst' = inst
            /\ alignment_constraints' = alignment_constraints
            /\ \A k \in 1..Len(events') :
                  events'[k].e \notin {"compile_all", "evaluate"}]_vars

\* get_default returned its candidate on a profiler whose cache holds an entry
\* for each shape
C17_Witness ==
    /\ api.call = "get_default" /\ api.out.status = "ok"
    /\ Cardinality(DOMAIN cache) = 2

\* what one select_op call alone returns from an empty cache
AloneResult(shape, out_dtype, profile_all) ==
    LET F == Feasible(shape, out_dtype)
        R == [k \in 1..Len(F) |-> rt[F[k].name]]
        finite == {k \in 1..Len(F) : R[k] < Inf}
        least == {k \in 1..Len(F) : \A j \in 1..Len(F) : R[k] <= R[j]}
        first(S) == CHOOSE k \in S : \A j \in S : k <= j
        won(k) == Returned([F[k] EXCEPT !.runtime = R[k]])
    IN IF F = <<>> THEN Raised("ValueError")
       ELSE IF ~profile_all /\ finite # {} THEN won(first(finite))
       ELSE won(first(least))

BothDone == \A t \in Threads : th # NoThreads /\ th[t].pc = "done"

BothMissed == \A t \in Threads : th[t].missed

\* C18 as stated: when two concurrent select_op calls for one shape (and one
\* output type) both miss the cache, both return the same winner and the final
\* entry is that winner, whatever the interleaving.
C18_SameShapeSameWinner ==
    (BothDone /\ BothMissed /\ th[1].out_dtype = th[2].out_dtype) =>
        /\ th[1].ret = th[2].ret
        /\ th[1].ret.status = "ok" => cache[ShapeOf(args)] = th[1].ret.op

\* C18, amended: when the two concurrent calls pass the same shape, out_dtype
\* and profile_all, both return what a single call would return, and the final
\* entry is that winner, whatever the interleaving and whoever writes last.
C18_SameCallSameWinner ==
    (BothDone /\ th[1].out_dtype = th[2].out_dtype
       /\ th[1].profile_all = th[2].profile_all) =>
        LET alone == AloneResult(ShapeOf(args), th[1].out_dtype, th[1].profile_all)
        IN /\ th[1].ret = alone
           /\ th[2].ret = alone
           /\ alone.status = "ok" => cache[ShapeOf(args)] = alone.op
           /\ alone.status # "ok" => cache = NoCache

\* two equal calls overlapped, both searched, and both stored the same winner,
\* which is not the first feasible candidate
C18_Witness ==
    /\ BothDone /\ BothMissed
    /\ th[1].out_dtype = th[2].out_dtype /\ th[1].profile_all = th[2].profile_all
    /\ th[1].ret.status = "ok" /\ th[2].ret = th[1].ret
    /\ cache[ShapeOf(args)] = th[1].ret.op
    /\ th[1].ret.op.name # Feasible(ShapeOf(args), th[1].out_dtype)[1].name

====
